---- MODULE Spec2Model ----
(***************************************************************************)
(* A model of cargo-rtic-scope: the task resolver (parse.rs), the trace    *)
(* sources (probe.rs, tty.rs) and the sinks (sinks.rs).                     *)
(***************************************************************************)
EXTENDS Integers, Sequences, FiniteSets, TLC

VARIABLES
    \* ---- TaskResolver::software_tasks (parse.rs:83-166)
    app,        \* the parsed syn::Item tree of self.app: node -> item record
    ctx,        \* ctx: Vec<syn::Ident>, the path stack
    assocs,     \* assocs: SwAssocs, task id -> path
    id_gen,     \* TaskIDGenerator(usize)
    stack,      \* the call stack of traverse_item: frames [item, i]
    swPc,       \* "idle" | "run" | "done"
    swResult    \* "none" | "ok" | "err"   (Result<SwAssocs>)

swVars == <<app, ctx, assocs, id_gen, stack, swPc, swResult>>

VARIABLES
    \* ---- TaskResolver::resolve / hardware_tasks / resolve_int_nrs (parse.rs)
    hwTasks,    \* app.hardware_tasks: task -> hwt.args.binds
    device,     \* app.args.device: <<>> for None, else the path's segments
    hwPc,       \* "start" | "device" | "adhoc" | "assocs" | "sw" | "done"
    int_binds,  \* the bound architecture-internal exception names
    ext_binds,  \* the bound names that are not internal
    adhocCalls, \* the arguments of every resolve_int_nrs invocation so far
    adhoc,      \* how resolve_int_nrs ended: "none" | "ok" | "io" | "build" | "load" | "symbol"
    excpt_nrs,  \* excpt_nrs: BTreeMap<Ident, u8>
    exceptions, \* int_assocs: InternalHwAssocs
    interrupts, \* ext_assocs: ExternalHwAssocs
    result,     \* how resolve() ended: "none" | "ok" | "err" | "panic"
    errKind,    \* which failure made resolve() end without maps
    maps        \* <<>> or <<TaskResolveMaps>>: what resolve() handed out

hwVars == <<hwTasks, device, hwPc, int_binds, ext_binds, adhocCalls, adhoc,
            excpt_nrs, exceptions, interrupts, result, errKind, maps>>

VARIABLES
    \* ---- the trace session: Source -> Sink.drain (probe.rs, tty.rs, sinks.rs)
    opts,       \* what the session is set up with: [src, maps, freq, now]
    decoder,    \* the bytes pushed to the Decoder and not yet pulled as a batch
    nread,      \* how many bytes the device has delivered so far
    pipePc,     \* "init" | "init_write" | "ready" | "read" | "pull" | "yielded"
                \* | "drain_file" | "drain_front"
    srcRes,     \* what the last next() returned: "none" | "some" | "err" | "eof"
    cur,        \* <<>> or <<batch>>: the batch next() returned, being drained
    yielded,    \* every batch the Source has yielded, in order
    file,       \* FileSink.file: the bytes written to the trace file
    socket,     \* FrontendSink.socket: the bytes written to the channel
    metadata,   \* <<>> or <<Metadata>>: what init() returned, held by the FrontendSink
    resetCalls, \* how often the reset closure has been invoked
    fileRes,    \* the result of the last FileSink call: "none" | "ok" | "err"
    frontRes,   \* the result of the last FrontendSink::drain: "none" | "ok" | "err"
    frontWhy    \* "none" | "sent" | "unresolved" | "ser" | "write"

pipeVars == <<opts, decoder, nread, pipePc, srcRes, cur, yielded, file, socket,
              metadata, resetCalls, fileRes, frontRes, frontWhy>>

VARIABLES
    \* ---- TTYSource::avail_buffer (tty.rs:246-264)
    queued,      \* the bytes queued in the kernel's receive buffer of the tty
    pageSize,    \* sysconf(PAGE_SIZE): <<>> when unavailable, else <<page_size>>
    fion,        \* the last FIONREAD query: <<>> when it failed, else <<avail_bytes>>
    prevStatus,  \* the BufferStatus returned by the call before the last one
    lastStatus,  \* the BufferStatus returned by the last avail_buffer() call
    readSince,   \* whether next() read from the device since the last call
    readBetween, \* whether next() read from the device between those two calls
    arrivals,    \* how many times the device has received bytes
    reads        \* how many bytes have been read from the device

bufVars == <<queued, pageSize, fion, prevStatus, lastStatus, readSince, readBetween,
             arrivals, reads>>

VARIABLES
    \* ---- Source::reset_target (probe.rs:66-76, tty.rs:234-244)
    rstSrc,      \* which Source variant is reset: "probe" | "tty"
    rstPc,       \* "idle" | "core" | "reset": the position in reset_target
    rstHalt,     \* the reset_halt argument of the call
    coreHeld,    \* whether self.session.core(0) gave a core in this call
    coreOps,     \* the operations this call has issued on the core
    rstRes,      \* what the call returned: "none" | "ok" | "ResetError"
    rstLog       \* the finished calls: [halt, held, ops, res]

rstVars == <<rstSrc, rstPc, rstHalt, coreHeld, coreOps, rstRes, rstLog>>

VARIABLES
    \* ---- FileSink::generate_trace_file and find_trace_files (sinks.rs)
    fsys,        \* the trace directory: entry name -> "absent" | "old" | "new"
    fsys0,       \* the trace directory as it was when the call began
    dirThere,    \* whether the trace directory exists
    gtfFlag,     \* remove_prev_traces
    gtfPc,       \* "idle" | "list" | "name" | "mkdir" | "open" | "done"
    gtfSeen,     \* the directory entries read_dir has yielded so far
    gtfRes,      \* "none" | "ok" | "err" | "panic"
    gtfWhy       \* which step ended the call

fsVars == <<fsys, fsys0, dirThere, gtfFlag, gtfPc, gtfSeen, gtfRes, gtfWhy>>

vars == <<swVars, hwVars, pipeVars, bufVars, rstVars, fsVars>>

\* what software_tasks leaves alone
notSw == <<hwVars, pipeVars, bufVars, rstVars, fsVars>>

\* what resolve, hardware_tasks and resolve_int_nrs leave alone
notHw == <<swVars, pipeVars, bufVars, rstVars, fsVars>>

\* what the sources and sinks leave alone
notPipe == <<swVars, hwVars, bufVars, rstVars, fsVars>>

\* what avail_buffer and the tty's receive buffer leave alone
notBuf == <<swVars, hwVars, pipeVars, rstVars, fsVars>>

\* what reset_target leaves alone
notRst == <<swVars, hwVars, pipeVars, bufVars, fsVars>>

\* what generate_trace_file leaves alone
notFs == <<swVars, hwVars, pipeVars, bufVars, rstVars>>

(***************************************************************************)
(* Bounds                                                                  *)
(***************************************************************************)
MaxItems == 4

MaxHwTasks == 2

MaxSegments == 3

MaxBytes == 4

MaxChunk == 2

MaxArrivals == 2

MaxBurst == 2

MaxReads == 1

MaxResets == 3

(***************************************************************************)
(* The application item tree.  Node 1 is the item parsed from self.app;     *)
(* node 0 stands for software_tasks itself, whose only "item" is node 1.    *)
(***************************************************************************)
Nodes == 1..MaxItems

IdentNames == <<"app", "foo", "bar", "baz", "qux", "quux", "corge", "grault">>

\* fun.sig.ident / m.ident of a node
Ident(n) == IdentNames[n]

\* The shapes an item (or statement of a function body) can have, as far as
\* traverse_item distinguishes them.
Shapes == {"FnTraced", "Fn", "Mod", "ModDecl", "Other", "Stmt"}

KindOf(shape) ==
    CASE shape \in {"FnTraced", "Fn"} -> "Fn"
      [] shape \in {"Mod", "ModDecl"}  -> "Mod"
      [] OTHER                         -> shape

Last(s) == s[Len(s)]

Range(s) == {s[i] : i \in DOMAIN s}

\* The ascending sequence of the elements of a finite set of numbers.
RECURSIVE SortedSeq(_)
SortedSeq(S) ==
    IF S = {} THEN <<>>
    ELSE LET m == CHOOSE x \in S : \A y \in S : x <= y
         IN  <<m>> \o SortedSeq(S \ {m})

\* A tree given by a parent vector and a shape per node.
TreeOf(par, shp) ==
    [n \in Nodes |->
        [kind    |-> KindOf(shp[n]),
         traced  |-> shp[n] = "FnTraced",
         content |-> shp[n] # "ModDecl",
         items   |-> SortedSeq({c \in 2..MaxItems : par[c] = n})]]

\* Only function bodies and modules with content hold items; a non-item
\* statement occurs only in a function body; the root is an item.
WellFormed(par, shp) ==
    /\ \A c \in 2..MaxItems :
          /\ par[c] < c
          /\ shp[par[c]] \in {"FnTraced", "Fn", "Mod"}
          /\ shp[c] = "Stmt" => shp[par[c]] \in {"FnTraced", "Fn"}
    /\ shp[1] # "Stmt"

\* The items a frame iterates over: fun.block.stmts or the module's items.
Items(n) == IF n = 0 THEN <<1>> ELSE app[n].items

(***************************************************************************)
(* TaskIDGenerator::generate                                               *)
(***************************************************************************)
GenerateStuck(g) == [id |-> g, next |-> g]

Generate(g) == [id |-> g, next |-> g + 1]

Push(s, e) == Append(s, e)

PopKeep(s) == s

Pop(s) == SubSeq(s, 1, Len(s) - 1)

Insert(m, k, v) == [x \in (DOMAIN m) \cup {k} |-> IF x = k THEN v ELSE m[x]]

EmptyMap == [x \in {} |-> <<>>]

(***************************************************************************)
(* software_tasks: the traversal, one step per item visited or left        *)
(***************************************************************************)
Top == stack[Len(stack)]

\* The item the top frame is about to hand to traverse_item.
HasNext == swPc = "run" /\ Len(stack) > 0 /\ Top.i <= Len(Items(Top.item))

NextItem == Items(Top.item)[Top.i]

Advance(s) == [s EXCEPT ![Len(s)].i = @ + 1]

\* syn::parse2::<syn::Item>(self.app.clone())? fails
SwParseFail ==
    /\ swPc = "idle" /\ hwPc = "sw"
    /\ swPc' = "done"
    /\ swResult' = "err"
    /\ UNCHANGED <<app, ctx, assocs, id_gen, stack>>
    /\ UNCHANGED notSw

\* the parse succeeds; ctx, assocs and id_gen are created
SwBegin ==
    /\ swPc = "idle" /\ hwPc = "sw"
    /\ swPc' = "run"
    /\ ctx' = <<>>
    /\ assocs' = EmptyMap
    /\ id_gen' = 0
    /\ stack' = <<[item |-> 0, i |-> 1]>>
    /\ UNCHANGED <<app, swResult>>
    /\ UNCHANGED notSw

\* syn::Item::Fn(fun): push the name, record a traced function, walk the body
EnterFn ==
    /\ HasNext
    /\ app[NextItem].kind = "Fn"
    /\ LET path == Push(ctx, Ident(NextItem))
           g    == Generate(id_gen)
       IN  /\ ctx' = path
           /\ IF app[NextItem].traced
              THEN /\ assocs' = Insert(assocs, g.id, path)
                   /\ id_gen' = g.next
              ELSE UNCHANGED <<assocs, id_gen>>
    /\ stack' = Append(Advance(stack), [item |-> NextItem, i |-> 1])
    /\ UNCHANGED <<app, swPc, swResult>>
    /\ UNCHANGED notSw

\* syn::Item::Mod(m): push the name, walk the declared items (if any)
EnterMod ==
    /\ HasNext
    /\ app[NextItem].kind = "Mod"
    /\ ctx' = Push(ctx, Ident(NextItem))
    /\ stack' = Append(Advance(stack), [item |-> NextItem, i |-> 1])
    /\ UNCHANGED <<app, assocs, id_gen, swPc, swResult>>
    /\ UNCHANGED notSw

\* any other item: `_ => ()`
SkipItem ==
    /\ HasNext
    /\ app[NextItem].kind = "Other"
    /\ stack' = Advance(stack)
    /\ UNCHANGED <<app, ctx, assocs, id_gen, swPc, swResult>>
    /\ UNCHANGED notSw

\* a statement of a function body that is no item: filter_map gives None
SkipStmt ==
    /\ HasNext
    /\ app[NextItem].kind = "Stmt"
    /\ stack' = Advance(stack)
    /\ UNCHANGED <<app, ctx, assocs, id_gen, swPc, swResult>>
    /\ UNCHANGED notSw

\* the body of a function is exhausted: ctx.pop() and return
ExitFn ==
    /\ swPc = "run" /\ Len(stack) > 0 /\ ~HasNext
    /\ Top.item # 0 /\ app[Top.item].kind = "Fn"
    /\ ctx' = Pop(ctx)
    /\ stack' = SubSeq(stack, 1, Len(stack) - 1)
    /\ UNCHANGED <<app, assocs, id_gen, swPc, swResult>>
    /\ UNCHANGED notSw

\* the items of a module are exhausted: ctx.pop() and return
ExitMod ==
    /\ swPc = "run" /\ Len(stack) > 0 /\ ~HasNext
    /\ Top.item # 0 /\ app[Top.item].kind = "Mod"
    /\ ctx' = Pop(ctx)
    /\ stack' = SubSeq(stack, 1, Len(stack) - 1)
    /\ UNCHANGED <<app, assocs, id_gen, swPc, swResult>>
    /\ UNCHANGED notSw

\* traverse_item(&app, ..) has returned: Ok(assocs)
SwReturn ==
    /\ swPc = "run" /\ Len(stack) = 1 /\ ~HasNext
    /\ Top.item = 0
    /\ stack' = <<>>
    /\ swPc' = "done"
    /\ swResult' = "ok"
    /\ UNCHANGED <<app, ctx, assocs, id_gen>>
    /\ UNCHANGED notSw

SoftwareTasks ==
    \/ SwParseFail
    \/ SwBegin
    \/ EnterFn
    \/ EnterMod
    \/ SkipItem
    \/ SkipStmt
    \/ ExitFn
    \/ ExitMod
    \/ SwReturn

(***************************************************************************)
(* hardware_tasks, resolve_int_nrs and resolve                             *)
(***************************************************************************)
HwTaskIds == 1..MaxHwTasks

TaskIdents == <<"serial_task", "tick", "button", "adc", "dma">>

\* the name of a hardware task
TaskIdent(t) == TaskIdents[t]

InternalExceptions ==
    {"Reset", "NMI", "HardFault", "MemManage", "BusFault", "UsageFault",
     "SVCall", "DebugMonitor", "PendSV", "SysTick"}

\* the names hardware tasks are bound to in the applications considered
BindSample == {"SysTick", "PendSV", "UART0", "EXTI0"}

\* the numbers the hardware-description crate may give its interrupts
NrSample == {6, 37}

DeviceIdents == <<"pac", "chip", "extra", "more", "most">>

IsInternalButPendSV(bind) == bind \in InternalExceptions \ {"PendSV"}

\* the predicate of the partition into int_binds and ext_binds
IsInternal(bind) == bind \in InternalExceptions

SegmentsUpToThree(d) == Len(d) \in {1, 2, 3}

\* the device paths resolve_int_nrs is called for: [crate_name] and
\* [crate_name, crate_feature]
SegmentsParse(d) == Len(d) \in {1, 2}

Binds == {hwTasks[t] : t \in DOMAIN hwTasks}

\* the task bound to a name (rtic_syntax lets a name be bound once)
TaskBoundTo(b) == CHOOSE t \in DOMAIN hwTasks : hwTasks[t] = b

Injective(f) == \A x, y \in DOMAIN f : f[x] = f[y] => x = y

\* resolve() ends without maps
Fail(kind) ==
    /\ hwPc' = "done"
    /\ result' = "err"
    /\ errKind' = kind
    /\ UNCHANGED <<hwTasks, device, maps>>

\* rtic_syntax::parse2(..)? fails
HwParseFail ==
    /\ hwPc = "start"
    /\ Fail("parse")
    /\ UNCHANGED <<int_binds, ext_binds, adhocCalls, adhoc, excpt_nrs,
                   exceptions, interrupts>>
    /\ UNCHANGED notHw

\* the bound names are partitioned into internal and external ones
HwPartition ==
    /\ hwPc = "start"
    /\ int_binds' = {b \in Binds : IsInternal(b)}
    /\ ext_binds' = {b \in Binds : ~IsInternal(b)}
    /\ hwPc' = "device"
    /\ UNCHANGED <<hwTasks, device, adhocCalls, adhoc, excpt_nrs, exceptions,
                   interrupts, result, errKind, maps>>
    /\ UNCHANGED notHw

\* None => bail!("expected argument #[app(device = ...)] is missing")
DeviceMissing ==
    /\ hwPc = "device"
    /\ device = <<>>
    /\ Fail("device_missing")
    /\ UNCHANGED <<int_binds, ext_binds, adhocCalls, adhoc, excpt_nrs,
                   exceptions, interrupts>>
    /\ UNCHANGED notHw

\* _ if ext_binds.is_empty() => BTreeMap::new()
SkipResolution ==
    /\ hwPc = "device"
    /\ device # <<>>
    /\ ext_binds = {}
    /\ excpt_nrs' = EmptyMap
    /\ hwPc' = "assocs"
    /\ UNCHANGED <<hwTasks, device, int_binds, ext_binds, adhocCalls, adhoc,
                   exceptions, interrupts, result, errKind, maps>>
    /\ UNCHANGED notHw

\* [crate_name] | [crate_name, crate_feature] => self.resolve_int_nrs(..)
CallResolveIntNrs ==
    /\ hwPc = "device"
    /\ device # <<>>
    /\ ext_binds # {}
    /\ SegmentsParse(device)
    /\ adhocCalls' = Append(adhocCalls,
                            [binds         |-> ext_binds,
                             crate_name    |-> device[1],
                             crate_feature |-> SubSeq(device, 2, Len(device))])
    /\ hwPc' = "adhoc"
    /\ UNCHANGED <<hwTasks, device, int_binds, ext_binds, adhoc, excpt_nrs,
                   exceptions, interrupts, result, errKind, maps>>
    /\ UNCHANGED notHw

\* _ => bail!("argument passed to #[app(device = ...)] cannot be parsed")
DeviceUnparseable ==
    /\ hwPc = "device"
    /\ device # <<>>
    /\ ext_binds # {}
    /\ ~SegmentsParse(device)
    /\ Fail("device_unparseable")
    /\ UNCHANGED <<int_binds, ext_binds, adhocCalls, adhoc, excpt_nrs,
                   exceptions, interrupts>>
    /\ UNCHANGED notHw

\* resolve_int_nrs: extracting libadhoc or appending to Cargo.toml or lib.rs
\* fails (`?`)
AdhocIOFail ==
    /\ hwPc = "adhoc"
    /\ adhoc' = "io"
    /\ Fail("adhoc_io")
    /\ UNCHANGED <<int_binds, ext_binds, adhocCalls, excpt_nrs, exceptions,
                   interrupts>>
    /\ UNCHANGED notHw

\* resolve_int_nrs: self.cargo.build(..)? fails
AdhocBuildFail ==
    /\ hwPc = "adhoc"
    /\ adhoc' = "build"
    /\ Fail("adhoc_build")
    /\ UNCHANGED <<int_binds, ext_binds, adhocCalls, excpt_nrs, exceptions,
                   interrupts>>
    /\ UNCHANGED notHw

\* resolve_int_nrs: libloading::Library::new(..)? fails
AdhocLoadFail ==
    /\ hwPc = "adhoc"
    /\ adhoc' = "load"
    /\ Fail("adhoc_load")
    /\ UNCHANGED <<int_binds, ext_binds, adhocCalls, excpt_nrs, exceptions,
                   interrupts>>
    /\ UNCHANGED notHw

\* resolve_int_nrs: lib.get(..) gives Err and .unwrap() panics; resolve()
\* returns nothing
AdhocSymbolMissing ==
    /\ hwPc = "adhoc"
    /\ adhoc' = "symbol"
    /\ hwPc' = "done"
    /\ result' = "panic"
    /\ errKind' = "symbol"
    /\ UNCHANGED <<hwTasks, device, int_binds, ext_binds, adhocCalls,
                   excpt_nrs, exceptions, interrupts, maps>>
    /\ UNCHANGED notHw

\* resolve_int_nrs: every generated function is called and gives its number
AdhocOk ==
    /\ hwPc = "adhoc"
    /\ \E nr \in [Last(adhocCalls).binds -> NrSample] :
          /\ Injective(nr)
          /\ excpt_nrs' = nr
    /\ adhoc' = "ok"
    /\ hwPc' = "assocs"
    /\ UNCHANGED <<hwTasks, device, int_binds, ext_binds, adhocCalls,
                   exceptions, interrupts, result, errKind, maps>>
    /\ UNCHANGED notHw

\* int_assocs and ext_assocs are collected; hardware_tasks returns Ok
HwAssocs ==
    /\ hwPc = "assocs"
    /\ exceptions' = [b \in {c \in Binds : c \in int_binds} |->
                         <<"app", TaskIdent(TaskBoundTo(b))>>]
    /\ interrupts' =
          [n \in {excpt_nrs[c] : c \in Binds \cap DOMAIN excpt_nrs} |->
              LET b == CHOOSE c \in Binds \cap DOMAIN excpt_nrs : excpt_nrs[c] = n
              IN  [task |-> <<"app", TaskIdent(TaskBoundTo(b))>>, bind |-> b]]
    /\ hwPc' = "sw"
    /\ UNCHANGED <<hwTasks, device, int_binds, ext_binds, adhocCalls, adhoc,
                   excpt_nrs, result, errKind, maps>>
    /\ UNCHANGED notHw

\* self.software_tasks()? fails
ResolveSwFail ==
    /\ hwPc = "sw" /\ swPc = "done" /\ swResult = "err"
    /\ Fail("sw_parse")
    /\ UNCHANGED <<int_binds, ext_binds, adhocCalls, adhoc, excpt_nrs,
                   exceptions, interrupts>>
    /\ UNCHANGED notHw

\* Ok(TaskResolveMaps { exceptions, interrupts, sw_assocs })
ResolveOk ==
    /\ hwPc = "sw" /\ swPc = "done" /\ swResult = "ok"
    /\ maps' = <<[exceptions |-> exceptions,
                  interrupts |-> interrupts,
                  sw_assocs  |-> assocs]>>
    /\ result' = "ok"
    /\ hwPc' = "done"
    /\ UNCHANGED <<hwTasks, device, int_binds, ext_binds, adhocCalls, adhoc,
                   excpt_nrs, exceptions, interrupts, errKind>>
    /\ UNCHANGED notHw

HardwareTasks ==
    \/ HwParseFail
    \/ HwPartition
    \/ DeviceMissing
    \/ SkipResolution
    \/ CallResolveIntNrs
    \/ DeviceUnparseable
    \/ HwAssocs

ResolveIntNrs ==
    \/ AdhocIOFail
    \/ AdhocBuildFail
    \/ AdhocLoadFail
    \/ AdhocSymbolMissing
    \/ AdhocOk

Resolve ==
    \/ HardwareTasks
    \/ ResolveIntNrs
    \/ SoftwareTasks
    \/ ResolveSwFail
    \/ ResolveOk

\* no trace session is running
PipeIdle ==
    /\ opts = [src |-> "none", maps |-> <<>>, freq |-> 0, now |-> 0]
    /\ decoder = <<>>
    /\ nread = 0
    /\ pipePc = "off"
    /\ srcRes = "none"
    /\ cur = <<>>
    /\ yielded = <<>>
    /\ file = <<>>
    /\ socket = <<>>
    /\ metadata = <<>>
    /\ resetCalls = 0
    /\ fileRes = "none"
    /\ frontRes = "none"
    /\ frontWhy = "none"

\* no BufferStatus has been returned yet
NoStatus == [kind |-> "None", n |-> 0, page |-> 0]

\* no serial device is open
BufIdle ==
    /\ queued = 0
    /\ pageSize = <<>>
    /\ fion = <<>>
    /\ prevStatus = NoStatus
    /\ lastStatus = NoStatus
    /\ readSince = FALSE
    /\ readBetween = FALSE
    /\ arrivals = 0
    /\ reads = 0

\* no reset_target call is made
RstIdle ==
    /\ rstSrc = "none"
    /\ rstPc = "off"
    /\ rstHalt = FALSE
    /\ coreHeld = FALSE
    /\ coreOps = <<>>
    /\ rstRes = "none"
    /\ rstLog = <<>>

\* the entries a trace directory may hold: the file generate_trace_file is
\* about to name, a trace recorded earlier, a file that is no trace, a
\* directory named like a trace, and a file whose name is not valid UTF-8
Entries == {"blinky.trace", "old.trace", "notes.txt", "dir.trace", "raw.trace"}

\* no generate_trace_file call is made
FsIdle ==
    /\ fsys = [e \in Entries |-> "absent"]
    /\ fsys0 = [e \in Entries |-> "absent"]
    /\ dirThere = FALSE
    /\ gtfFlag = FALSE
    /\ gtfPc = "off"
    /\ gtfSeen = {}
    /\ gtfRes = "none"
    /\ gtfWhy = "none"

\* the locals of software_tasks() before it runs
InitSwIdle ==
    /\ ctx = <<>>
    /\ assocs = EmptyMap
    /\ id_gen = 0
    /\ stack = <<>>
    /\ swPc = "idle"
    /\ swResult = "none"

\* the locals of resolve() before it runs
InitHwLocals ==
    /\ int_binds = {}
    /\ ext_binds = {}
    /\ adhocCalls = <<>>
    /\ adhoc = "none"
    /\ excpt_nrs = EmptyMap
    /\ exceptions = EmptyMap
    /\ interrupts = EmptyMap
    /\ result = "none"
    /\ errKind = "none"
    /\ maps = <<>>

\* mod app { #[trace] fn foo() { <statement> } <other item> .. }
ScenarioApp ==
    TreeOf([c \in 2..MaxItems |-> IF c = 4 THEN 2 ELSE 1],
           [n \in Nodes |-> CASE n = 1 -> "Mod"
                              [] n = 2 -> "FnTraced"
                              [] n = 3 -> "Other"
                              [] n = 4 -> "Stmt"
                              [] OTHER -> "Fn"])

(***************************************************************************)
(* SpecHw: resolve() for every binding of up to MaxHwTasks hardware tasks   *)
(* and every device argument of up to MaxSegments segments                  *)
(***************************************************************************)
InitHw ==
    /\ \E S \in SUBSET HwTaskIds : \E f \in [S -> BindSample] :
          /\ Injective(f)
          /\ hwTasks = f
    /\ \E n \in 0..MaxSegments : device = SubSeq(DeviceIdents, 1, n)
    /\ hwPc = "start"
    /\ InitHwLocals
    /\ app = ScenarioApp
    /\ InitSwIdle
    /\ PipeIdle
    /\ BufIdle
    /\ RstIdle
    /\ FsIdle

NextHw == Resolve

SpecHw == InitHw /\ [][NextHw]_vars

(***************************************************************************)
(* SpecSw: software_tasks applied to every item tree of MaxItems nodes      *)
(***************************************************************************)
InitSw ==
    /\ \E par \in [2..MaxItems -> 1..(MaxItems - 1)], shp \in [Nodes -> Shapes] :
          /\ WellFormed(par, shp)
          /\ app = TreeOf(par, shp)
    /\ InitSwIdle
    /\ hwTasks = EmptyMap
    /\ device = <<>>
    /\ hwPc = "sw"
    /\ InitHwLocals
    /\ PipeIdle
    /\ BufIdle
    /\ RstIdle
    /\ FsIdle

NextSw == SoftwareTasks

SpecSw == InitSw /\ [][NextSw]_vars

(***************************************************************************)
(* JSON text, as serde_json writes it and as a stream parser reads it.      *)
(* A byte is a one-character string.                                        *)
(***************************************************************************)
DigitChars == <<"0", "1", "2", "3", "4", "5", "6", "7", "8", "9">>

RECURSIVE Digits(_)
\* a number in decimal
Digits(n) ==
    IF n < 10 THEN <<DigitChars[n + 1]>>
    ELSE Append(Digits(n \div 10), DigitChars[(n % 10) + 1])

RECURSIVE JoinComma(_)
JoinComma(parts) ==
    IF parts = <<>> THEN <<>>
    ELSE IF Len(parts) = 1 THEN parts[1]
    ELSE parts[1] \o <<",">> \o JoinComma(Tail(parts))

NumList(ns) == JoinComma([i \in DOMAIN ns |-> Digits(ns[i])])

\* serde_json::to_string(&packets): an object holding the packets
SerBatch(b) == <<"{", "[">> \o NumList(b) \o <<"]", "}">>

\* serde_json::to_string(&metadata): an object holding the maps (an object),
\* the trace clock frequency and the reset timestamp
SerMetadata(m) ==
    <<"{", "{">> \o NumList(m.maps) \o <<"}", ",">>
        \o Digits(m.freq) \o <<",">> \o Digits(m.ts) \o <<"}">>

\* the name a resolved event carries for a task id
TaskName(id) == <<"\"", "t">> \o Digits(id) \o <<"\"">>

\* serde_json::to_string(&packets) of a resolved chunk
SerEvents(names) == <<"{", "[">> \o JoinComma(names) \o <<"]", "}">>

RECURSIVE SplitValues(_, _, _)
\* The top-level values of a stream of self-delimiting JSON values: a value
\* ends where its brackets are balanced again.
SplitValues(rest, curv, depth) ==
    IF rest = <<>> THEN (IF curv = <<>> THEN <<>> ELSE <<curv>>)
    ELSE LET c  == Head(rest)
             d  == IF c \in {"{", "["} THEN depth + 1
                   ELSE IF c \in {"}", "]"} THEN depth - 1
                   ELSE depth
             cv == Append(curv, c)
         IN  IF d = 0 THEN <<cv>> \o SplitValues(Tail(rest), <<>>, 0)
             ELSE SplitValues(Tail(rest), cv, d)

DigitVal(c) == CHOOSE d \in 0..9 : DigitChars[d + 1] = c

RECURSIVE ParseNum(_)
ParseNum(cs) ==
    IF Len(cs) = 1 THEN DigitVal(cs[1])
    ELSE 10 * ParseNum(SubSeq(cs, 1, Len(cs) - 1)) + DigitVal(Last(cs))

RECURSIVE SplitComma(_, _)
SplitComma(rest, curv) ==
    IF rest = <<>> THEN (IF curv = <<>> THEN <<>> ELSE <<curv>>)
    ELSE IF Head(rest) = "," THEN <<curv>> \o SplitComma(Tail(rest), <<>>)
    ELSE SplitComma(Tail(rest), Append(curv, Head(rest)))

ParseNumList(cs) ==
    LET parts == SplitComma(cs, <<>>)
    IN  [i \in DOMAIN parts |-> ParseNum(parts[i])]

\* the batch a JSON text of a batch stands for
ParseBatch(text) == ParseNumList(SubSeq(text, 3, Len(text) - 2))

\* the Metadata a JSON text of a header stands for
ParseMetadata(text) ==
    LET close == CHOOSE i \in DOMAIN text :
                    text[i] = "}" /\ \A j \in 1..(i - 1) : text[j] # "}"
        tail  == ParseNumList(SubSeq(text, close + 2, Len(text) - 1))
    IN  [maps |-> ParseNumList(SubSeq(text, 3, close - 1)),
         freq |-> tail[1],
         ts   |-> tail[2]]

(***************************************************************************)
(* itm_decode::Decoder, as the sources use it: byte 0 is a timestamp        *)
(* packet, which completes a batch; any other byte is a packet naming the   *)
(* task or exception of that number.                                        *)
(***************************************************************************)
WireBytes == {0, 1, 12}

IsTimestamp(b) == b = 0

\* decoder.push(bytes)
DecoderPush(buf, bytes) == buf \o bytes

HasBatch(buf) == \E i \in DOMAIN buf : IsTimestamp(buf[i])

FirstTimestamp(buf) ==
    CHOOSE i \in DOMAIN buf :
        IsTimestamp(buf[i]) /\ \A j \in 1..(i - 1) : ~IsTimestamp(buf[j])

\* decoder.pull_with_timestamp(): Some(the packets up to the first timestamp)
PulledBatch(buf) == SubSeq(buf, 1, FirstTimestamp(buf) - 1)

AfterPullDropsRest(buf) == <<>>

\* what the decoder holds after a batch has been pulled
AfterPull(buf) == SubSeq(buf, FirstTimestamp(buf) + 1, Len(buf))

\* the byte strings a read may deliver: up to n bytes
Chunks(n) == UNION {[1..k -> WireBytes] : k \in 0..n}

Min(a, b) == IF a < b THEN a ELSE b

(***************************************************************************)
(* Metadata (recovery.rs, not part of the sources at hand)                 *)
(***************************************************************************)
\* Metadata::new(maps, ts, freq)
MetadataNew(taskMaps, ts, freq) == [maps |-> taskMaps, ts |-> ts, freq |-> freq]

\* Metadata::resolve_event_chunk is Ok: every id of the batch has a map entry
Resolves(m, batch) == \A i \in DOMAIN batch : batch[i] \in Range(m.maps)

\* Metadata::resolve_event_chunk, when Ok: the ids are replaced by names
ResolveEventChunk(m, batch) == [i \in DOMAIN batch |-> TaskName(batch[i])]

(***************************************************************************)
(* The caller of the source and the sinks: init the file sink, then hand    *)
(* every batch the source yields to the file sink and to the frontend sink  *)
(***************************************************************************)
After(pc) ==
    CASE pc = "init_write"  -> "ready"
      [] pc = "yielded"     -> "drain_file"
      [] pc = "drain_file"  -> "drain_front"
      [] pc = "drain_front" -> "ready"

\* the loop asks the source for the next batch
MainNext ==
    /\ pipePc = "ready"
    /\ pipePc' = "read"
    /\ cur' = <<>>
    /\ UNCHANGED <<opts, decoder, nread, srcRes, yielded, file, socket,
                   metadata, resetCalls, fileRes, frontRes, frontWhy>>
    /\ UNCHANGED notPipe

\* the loop hands the batch it got to the sinks
MainDrain ==
    /\ pipePc = "yielded"
    /\ pipePc' = After(pipePc)
    /\ UNCHANGED <<opts, decoder, nread, srcRes, cur, yielded, file, socket,
                   metadata, resetCalls, fileRes, frontRes, frontWhy>>
    /\ UNCHANGED notPipe

(***************************************************************************)
(* ProbeSource::next and TTYSource::next                                   *)
(***************************************************************************)
\* next() returns Some(Err(..)) or None
SourceEnds(how) ==
    /\ srcRes' = how
    /\ pipePc' = "ended"
    /\ UNCHANGED <<opts, decoder, nread, cur, yielded, file, socket, metadata,
                   resetCalls, fileRes, frontRes, frontWhy>>

\* bytes were read and pushed to the decoder
SourcePushes(bytes) ==
    /\ decoder' = DecoderPush(decoder, bytes)
    /\ nread' = nread + Len(bytes)
    /\ pipePc' = "pull"
    /\ UNCHANGED <<opts, srcRes, cur, yielded, file, socket, metadata,
                   resetCalls, fileRes, frontRes, frontWhy>>

\* pull_with_timestamp() gave None: continue
SourcePullsNone ==
    /\ ~HasBatch(decoder)
    /\ pipePc' = "read"
    /\ UNCHANGED <<opts, decoder, nread, srcRes, cur, yielded, file, socket,
                   metadata, resetCalls, fileRes, frontRes, frontWhy>>

\* pull_with_timestamp() gave Some(packets): return Some(Ok(packets))
SourcePullsSome ==
    /\ HasBatch(decoder)
    /\ cur' = <<PulledBatch(decoder)>>
    /\ yielded' = Append(yielded, PulledBatch(decoder))
    /\ decoder' = AfterPull(decoder)
    /\ srcRes' = "some"
    /\ pipePc' = "yielded"
    /\ UNCHANGED <<opts, nread, file, socket, metadata, resetCalls, fileRes,
                   frontRes, frontWhy>>

\* self.session.read_swo() is Ok(bytes)
ProbeRead ==
    /\ pipePc = "read" /\ opts.src = "probe"
    /\ \E bytes \in Chunks(Min(MaxChunk, MaxBytes - nread)) : SourcePushes(bytes)
    /\ UNCHANGED notPipe

\* self.session.read_swo() is Err(e)
ProbeReadErr ==
    /\ pipePc = "read" /\ opts.src = "probe"
    /\ SourceEnds("err")
    /\ UNCHANGED notPipe

ProbePullNoneEnds ==
    /\ pipePc = "pull" /\ opts.src = "probe"
    /\ ~HasBatch(decoder)
    /\ SourceEnds("eof")
    /\ UNCHANGED notPipe

ProbePullNone ==
    /\ pipePc = "pull" /\ opts.src = "probe"
    /\ SourcePullsNone
    /\ UNCHANGED notPipe

ProbePullSome ==
    /\ pipePc = "pull" /\ opts.src = "probe"
    /\ SourcePullsSome
    /\ UNCHANGED notPipe

TTYReadTwo ==
    /\ pipePc = "read" /\ opts.src = "tty"
    /\ nread + 1 < MaxBytes
    /\ \E b1 \in WireBytes, b2 \in WireBytes : SourcePushes(<<b1, b2>>)
    /\ UNCHANGED notPipe

\* the next item of self.bytes is Some(Ok(b))
TTYRead ==
    /\ pipePc = "read" /\ opts.src = "tty"
    /\ nread < MaxBytes
    /\ \E b \in WireBytes : SourcePushes(<<b>>)
    /\ UNCHANGED notPipe

\* the next item of self.bytes is Some(Err(e))
TTYReadErr ==
    /\ pipePc = "read" /\ opts.src = "tty"
    /\ SourceEnds("err")
    /\ UNCHANGED notPipe

\* self.bytes is exhausted: next() returns None
TTYEof ==
    /\ pipePc = "read" /\ opts.src = "tty"
    /\ SourceEnds("eof")
    /\ UNCHANGED notPipe

TTYPullNone ==
    /\ pipePc = "pull" /\ opts.src = "tty"
    /\ SourcePullsNone
    /\ UNCHANGED notPipe

TTYPullSome ==
    /\ pipePc = "pull" /\ opts.src = "tty"
    /\ SourcePullsSome
    /\ UNCHANGED notPipe

ProbeSourceNext == ProbeRead \/ ProbeReadErr \/ ProbePullNone \/ ProbePullSome

TTYSourceNext == TTYRead \/ TTYReadErr \/ TTYEof \/ TTYPullNone \/ TTYPullSome

(***************************************************************************)
(* FileSink::init, FileSink::drain and FrontendSink::drain                 *)
(***************************************************************************)
\* write_all(json) succeeded
Written(out, json) == out \o json

\* write_all(json) failed after a part of json was written
PartlyWritten(out, json) ==
    {out \o SubSeq(json, 1, k) : k \in 0..(Len(json) - 1)}

\* a call of a sink returned Err: the session is over
SinkFails == pipePc' = "ended"

FileInitNoReset ==
    /\ pipePc = "init"
    /\ pipePc' = "init_write"
    /\ UNCHANGED <<opts, decoder, nread, srcRes, cur, yielded, file, socket,
                   metadata, resetCalls, fileRes, frontRes, frontWhy>>
    /\ UNCHANGED notPipe

\* init(): reset_fun() is Ok
FileInitReset ==
    /\ pipePc = "init"
    /\ resetCalls' = resetCalls + 1
    /\ pipePc' = "init_write"
    /\ UNCHANGED <<opts, decoder, nread, srcRes, cur, yielded, file, socket,
                   metadata, fileRes, frontRes, frontWhy>>
    /\ UNCHANGED notPipe

\* init(): reset_fun().context("Failed to reset target")? fails
FileInitResetFail ==
    /\ pipePc = "init"
    /\ resetCalls' = resetCalls + 1
    /\ fileRes' = "err"
    /\ SinkFails
    /\ UNCHANGED <<opts, decoder, nread, srcRes, cur, yielded, file, socket,
                   metadata, frontRes, frontWhy>>
    /\ UNCHANGED notPipe

\* init(): the header is serialized and written; Ok(metadata)
FileInitWrite ==
    /\ pipePc = "init_write"
    /\ LET md == MetadataNew(opts.maps, opts.now, opts.freq)
       IN  /\ file' = Written(file, SerMetadata(md))
           /\ metadata' = <<md>>
    /\ fileRes' = "ok"
    /\ pipePc' = After(pipePc)
    /\ UNCHANGED <<opts, decoder, nread, srcRes, cur, yielded, socket,
                   resetCalls, frontRes, frontWhy>>
    /\ UNCHANGED notPipe

\* init(): serde_json::to_string(&metadata)? fails
FileInitSerFail ==
    /\ pipePc = "init_write"
    /\ fileRes' = "err"
    /\ SinkFails
    /\ UNCHANGED <<opts, decoder, nread, srcRes, cur, yielded, file, socket,
                   metadata, resetCalls, frontRes, frontWhy>>
    /\ UNCHANGED notPipe

\* init(): self.file.write_all(..) fails
FileInitWriteFail ==
    /\ pipePc = "init_write"
    /\ file' \in PartlyWritten(file,
                    SerMetadata(MetadataNew(opts.maps, opts.now, opts.freq)))
    /\ fileRes' = "err"
    /\ SinkFails
    /\ UNCHANGED <<opts, decoder, nread, srcRes, cur, yielded, socket,
                   metadata, resetCalls, frontRes, frontWhy>>
    /\ UNCHANGED notPipe

FileDrainOkNewline ==
    /\ pipePc = "drain_file"
    /\ file' = Written(file, SerBatch(cur[1]) \o <<"\n">>)
    /\ fileRes' = "ok"
    /\ pipePc' = After(pipePc)
    /\ UNCHANGED <<opts, decoder, nread, srcRes, cur, yielded, socket,
                   metadata, resetCalls, frontRes, frontWhy>>
    /\ UNCHANGED notPipe

\* FileSink::drain: the batch is serialized and written; Ok(())
FileDrainOk ==
    /\ pipePc = "drain_file"
    /\ file' = Written(file, SerBatch(cur[1]))
    /\ fileRes' = "ok"
    /\ pipePc' = After(pipePc)
    /\ UNCHANGED <<opts, decoder, nread, srcRes, cur, yielded, socket,
                   metadata, resetCalls, frontRes, frontWhy>>
    /\ UNCHANGED notPipe

\* FileSink::drain: serde_json::to_string(&packets)? fails
FileDrainSerFail ==
    /\ pipePc = "drain_file"
    /\ fileRes' = "err"
    /\ SinkFails
    /\ UNCHANGED <<opts, decoder, nread, srcRes, cur, yielded, file, socket,
                   metadata, resetCalls, frontRes, frontWhy>>
    /\ UNCHANGED notPipe

\* FileSink::drain: self.file.write_all(..)? fails
FileDrainWriteFail ==
    /\ pipePc = "drain_file"
    /\ file' \in PartlyWritten(file, SerBatch(cur[1]))
    /\ fileRes' = "err"
    /\ SinkFails
    /\ UNCHANGED <<opts, decoder, nread, srcRes, cur, yielded, socket,
                   metadata, resetCalls, frontRes, frontWhy>>
    /\ UNCHANGED notPipe

FrontDrainOkTwice ==
    /\ pipePc = "drain_front"
    /\ Resolves(metadata[1], cur[1])
    /\ LET json == SerEvents(ResolveEventChunk(metadata[1], cur[1]))
       IN  socket' = Written(Written(socket, json), json)
    /\ frontRes' = "ok"
    /\ frontWhy' = "sent"
    /\ pipePc' = After(pipePc)
    /\ UNCHANGED <<opts, decoder, nread, srcRes, cur, yielded, file, metadata,
                   resetCalls, fileRes>>
    /\ UNCHANGED notPipe

\* FrontendSink::drain: the batch resolves, is serialized and written
FrontDrainOk ==
    /\ pipePc = "drain_front"
    /\ Resolves(metadata[1], cur[1])
    /\ socket' = Written(socket,
                         SerEvents(ResolveEventChunk(metadata[1], cur[1])))
    /\ frontRes' = "ok"
    /\ frontWhy' = "sent"
    /\ pipePc' = After(pipePc)
    /\ UNCHANGED <<opts, decoder, nread, srcRes, cur, yielded, file, metadata,
                   resetCalls, fileRes>>
    /\ UNCHANGED notPipe

FrontDrainUnresolvedFails ==
    /\ pipePc = "drain_front"
    /\ ~Resolves(metadata[1], cur[1])
    /\ frontRes' = "err"
    /\ frontWhy' = "unresolved"
    /\ SinkFails
    /\ UNCHANGED <<opts, decoder, nread, srcRes, cur, yielded, file, socket,
                   metadata, resetCalls, fileRes>>
    /\ UNCHANGED notPipe

\* FrontendSink::drain: the batch does not resolve: eprintln!, Ok(())
FrontDrainUnresolved ==
    /\ pipePc = "drain_front"
    /\ ~Resolves(metadata[1], cur[1])
    /\ frontRes' = "ok"
    /\ frontWhy' = "unresolved"
    /\ pipePc' = After(pipePc)
    /\ UNCHANGED <<opts, decoder, nread, srcRes, cur, yielded, file, socket,
                   metadata, resetCalls, fileRes>>
    /\ UNCHANGED notPipe

\* FrontendSink::drain: serde_json::to_string(&packets)? fails
FrontDrainSerFail ==
    /\ pipePc = "drain_front"
    /\ Resolves(metadata[1], cur[1])
    /\ frontRes' = "err"
    /\ frontWhy' = "ser"
    /\ SinkFails
    /\ UNCHANGED <<opts, decoder, nread, srcRes, cur, yielded, file, socket,
                   metadata, resetCalls, fileRes>>
    /\ UNCHANGED notPipe

\* FrontendSink::drain: self.socket.write_all(..) fails
FrontDrainWriteFail ==
    /\ pipePc = "drain_front"
    /\ Resolves(metadata[1], cur[1])
    /\ socket' \in PartlyWritten(socket,
                      SerEvents(ResolveEventChunk(metadata[1], cur[1])))
    /\ frontRes' = "err"
    /\ frontWhy' = "write"
    /\ SinkFails
    /\ UNCHANGED <<opts, decoder, nread, srcRes, cur, yielded, file, metadata,
                   resetCalls, fileRes>>
    /\ UNCHANGED notPipe

FileSinkInit ==
    \/ FileInitReset
    \/ FileInitResetFail
    \/ FileInitWrite
    \/ FileInitSerFail
    \/ FileInitWriteFail

FileSinkDrain == FileDrainOk \/ FileDrainSerFail \/ FileDrainWriteFail

FrontendSinkDrain ==
    \/ FrontDrainOk
    \/ FrontDrainUnresolved
    \/ FrontDrainSerFail
    \/ FrontDrainWriteFail

(***************************************************************************)
(* SpecPipe: a trace session over either source, with up to MaxBytes bytes  *)
(* of trace data delivered in reads of up to MaxChunk bytes                 *)
(***************************************************************************)
MapsSample == {<<1>>, <<1, 12>>}

FreqSample == {8, 16}

TimeSample == {7}

InitPipe ==
    /\ opts \in [src : {"probe", "tty"}, maps : MapsSample, freq : FreqSample,
                 now : TimeSample]
    /\ decoder = <<>>
    /\ nread = 0
    /\ pipePc = "init"
    /\ srcRes = "none"
    /\ cur = <<>>
    /\ yielded = <<>>
    /\ file = <<>>
    /\ socket = <<>>
    /\ metadata = <<>>
    /\ resetCalls = 0
    /\ fileRes = "none"
    /\ frontRes = "none"
    /\ frontWhy = "none"
    /\ BufIdle
    /\ RstIdle
    /\ FsIdle
    /\ app = ScenarioApp
    /\ InitSwIdle
    /\ hwTasks = EmptyMap
    /\ device = <<>>
    /\ hwPc = "off"
    /\ InitHwLocals

NextPipe ==
    \/ MainNext
    \/ MainDrain
    \/ ProbeSourceNext
    \/ TTYSourceNext
    \/ FileSinkInit
    \/ FileSinkDrain
    \/ FrontendSinkDrain

SpecPipe == InitPipe /\ [][NextPipe]_vars

(***************************************************************************)
(* TTYSource::avail_buffer and the receive buffer of the serial device      *)
(***************************************************************************)
Unknown == [kind |-> "Unknown", n |-> 0, page |-> 0]

Avail(n) == [kind |-> "Avail", n |-> n, page |-> 0]

AvailWarn(n, page) == [kind |-> "AvailWarn", n |-> n, page |-> page]

QueuedNotRemaining(page, avail) == avail

\* page_size - avail_bytes
Remaining(page, avail) == page - avail

WarnsAtQuarter(n, page) == n <= page \div 4

\* n if n < page_size / 4
WarnsBelow(n, page) == n < page \div 4

\* the match on page_size - avail_bytes
StatusOf(page, avail) ==
    LET n == Remaining(page, avail)
    IN  IF WarnsBelow(n, page) THEN AvailWarn(n, page) ELSE Avail(n)

\* avail_buffer() returns the given status
Returns(status) ==
    /\ prevStatus' = lastStatus
    /\ lastStatus' = status
    /\ readBetween' = readSince
    /\ readSince' = FALSE
    /\ UNCHANGED <<queued, pageSize, arrivals, reads>>

\* ioctl::fionread(..).is_err(): return BufferStatus::Unknown
AvailBufferNoFionread ==
    /\ pipePc = "off" /\ hwPc = "off"
    /\ fion' = <<>>
    /\ Returns(Unknown)
    /\ UNCHANGED notBuf

\* sysconf(PAGE_SIZE) is not Ok(Some(..)): BufferStatus::Unknown
AvailBufferNoPageSize ==
    /\ pipePc = "off" /\ hwPc = "off"
    /\ pageSize = <<>>
    /\ fion' = <<queued>>
    /\ Returns(Unknown)
    /\ UNCHANGED notBuf

\* both queries answer: AvailWarn(n, page_size) or Avail(n)
AvailBufferKnown ==
    /\ pipePc = "off" /\ hwPc = "off"
    /\ pageSize # <<>>
    /\ fion' = <<queued>>
    /\ Returns(StatusOf(pageSize[1], queued))
    /\ UNCHANGED notBuf

AvailBuffer ==
    \/ AvailBufferNoFionread
    \/ AvailBufferNoPageSize
    \/ AvailBufferKnown

\* the device receives bytes, which the kernel queues
DeviceReceives ==
    /\ pipePc = "off" /\ hwPc = "off"
    /\ arrivals < MaxArrivals
    /\ \E k \in 1..MaxBurst : queued' = queued + k
    /\ arrivals' = arrivals + 1
    /\ UNCHANGED <<pageSize, fion, prevStatus, lastStatus, readSince, readBetween, reads>>
    /\ UNCHANGED notBuf

\* TTYSource::next takes the next item of self.bytes: one queued byte is read
TTYNextReadsByte ==
    /\ pipePc = "off" /\ hwPc = "off"
    /\ reads < MaxReads
    /\ queued > 0
    /\ queued' = queued - 1
    /\ reads' = reads + 1
    /\ readSince' = TRUE
    /\ UNCHANGED <<pageSize, fion, prevStatus, lastStatus, readBetween, arrivals>>
    /\ UNCHANGED notBuf

(***************************************************************************)
(* SpecBuf: avail_buffer on a serial device whose receive buffer fills and  *)
(* is read from                                                             *)
(***************************************************************************)
PageSizes == {7, 8, 4096}

QueuedSample == {0, 1, 2, 5, 6, 7, 8, 9, 100, 3072, 3073, 3196, 4096, 4097}

InitBuf ==
    /\ queued \in QueuedSample
    /\ pageSize \in {<<>>} \cup {<<p>> : p \in PageSizes}
    /\ fion = <<>>
    /\ prevStatus = NoStatus
    /\ lastStatus = NoStatus
    /\ readSince = FALSE
    /\ readBetween = FALSE
    /\ arrivals = 0
    /\ reads = 0
    /\ PipeIdle
    /\ RstIdle
    /\ FsIdle
    /\ app = ScenarioApp
    /\ InitSwIdle
    /\ hwTasks = EmptyMap
    /\ device = <<>>
    /\ hwPc = "off"
    /\ InitHwLocals

NextBuf ==
    \/ AvailBuffer
    \/ DeviceReceives
    \/ TTYNextReadsByte

SpecBuf == InitBuf /\ [][NextBuf]_vars

(***************************************************************************)
(* ProbeSource::reset_target and TTYSource::reset_target                    *)
(***************************************************************************)
\* Duration::from_millis(250)
HaltTimeoutMs == 250

ResetOpPlain(halt) == [op |-> "reset", timeout |-> 0]

\* if reset_halt { core.reset_and_halt(250 ms) } else { core.reset() }
ResetOp(halt) ==
    IF halt THEN [op |-> "reset_and_halt", timeout |-> HaltTimeoutMs]
    ELSE [op |-> "reset", timeout |-> 0]

\* the call returns: it is entered in the log of finished calls
ResetReturns(res, held, ops) ==
    /\ rstRes' = res
    /\ rstPc' = "idle"
    /\ rstLog' = Append(rstLog, [halt |-> rstHalt, held |-> held, ops |-> ops,
                                 res |-> res])

\* reset_target(reset_halt) is called
ResetCall(src) ==
    /\ rstSrc = src
    /\ rstPc = "idle"
    /\ Len(rstLog) < MaxResets
    /\ rstHalt' \in BOOLEAN
    /\ rstPc' = "core"
    /\ coreHeld' = FALSE
    /\ coreOps' = <<>>
    /\ rstRes' = "none"
    /\ UNCHANGED <<rstSrc, rstLog>>
    /\ UNCHANGED notRst

\* self.session.core(0) is Err: map_err(SourceError::ResetError)?
ResetCoreFail(src) ==
    /\ rstSrc = src
    /\ rstPc = "core"
    /\ ResetReturns("ResetError", FALSE, coreOps)
    /\ UNCHANGED <<rstSrc, rstHalt, coreHeld, coreOps>>
    /\ UNCHANGED notRst

\* self.session.core(0) is Ok(core)
ResetCoreOk(src) ==
    /\ rstSrc = src
    /\ rstPc = "core"
    /\ coreHeld' = TRUE
    /\ rstPc' = "reset"
    /\ UNCHANGED <<rstSrc, rstHalt, coreOps, rstRes, rstLog>>
    /\ UNCHANGED notRst

\* the reset operation is Ok: Ok(())
ResetIssuedOk(src) ==
    /\ rstSrc = src
    /\ rstPc = "reset"
    /\ coreOps' = Append(coreOps, [call |-> ResetOp(rstHalt), ok |-> TRUE])
    /\ ResetReturns("ok", TRUE, coreOps')
    /\ UNCHANGED <<rstSrc, rstHalt, coreHeld>>
    /\ UNCHANGED notRst

\* the reset operation is Err: map_err(SourceError::ResetError)?
ResetIssuedFail(src) ==
    /\ rstSrc = src
    /\ rstPc = "reset"
    /\ coreOps' = Append(coreOps, [call |-> ResetOp(rstHalt), ok |-> FALSE])
    /\ ResetReturns("ResetError", TRUE, coreOps')
    /\ UNCHANGED <<rstSrc, rstHalt, coreHeld>>
    /\ UNCHANGED notRst

ProbeResetTarget ==
    \/ ResetCall("probe")
    \/ ResetCoreFail("probe")
    \/ ResetCoreOk("probe")
    \/ ResetIssuedOk("probe")
    \/ ResetIssuedFail("probe")

TTYResetTarget ==
    \/ ResetCall("tty")
    \/ ResetCoreFail("tty")
    \/ ResetCoreOk("tty")
    \/ ResetIssuedOk("tty")
    \/ ResetIssuedFail("tty")

(***************************************************************************)
(* SpecReset: up to MaxResets calls of reset_target on either source        *)
(***************************************************************************)
InitReset ==
    /\ rstSrc \in {"probe", "tty"}
    /\ rstPc = "idle"
    /\ rstHalt = FALSE
    /\ coreHeld = FALSE
    /\ coreOps = <<>>
    /\ rstRes = "none"
    /\ rstLog = <<>>
    /\ PipeIdle
    /\ BufIdle
    /\ FsIdle
    /\ app = ScenarioApp
    /\ InitSwIdle
    /\ hwTasks = EmptyMap
    /\ device = <<>>
    /\ hwPc = "off"
    /\ InitHwLocals

NextReset ==
    \/ ProbeResetTarget
    \/ TTYResetTarget

SpecReset == InitReset /\ [][NextReset]_vars

(***************************************************************************)
(* FileSink::generate_trace_file and find_trace_files                       *)
(***************************************************************************)
\* the name generate_trace_file builds: "{name}-g{shortdesc}-{date}.trace"
NewName == "blinky.trace"

\* entry.file_type().unwrap().is_file()
IsFile(e) == e # "dir.trace"

\* entry.file_name().to_str() is Some(..)
NameIsUtf8(e) == e # "raw.trace"

\* .ends_with(TRACE_FILE_EXT)
EndsWithTraceExt(e) == e \in {"blinky.trace", "old.trace", "dir.trace"}

\* the entries of the directory that read_dir has not yielded yet
Unlisted == {e \in Entries : fsys[e] # "absent"} \ gtfSeen

\* generate_trace_file ends
GtfEnds(res, why) ==
    /\ gtfPc' = "done"
    /\ gtfRes' = res
    /\ gtfWhy' = why

\* remove_prev_traces is false: the removal loop is skipped
GtfSkipRemoval ==
    /\ gtfPc = "idle" /\ ~gtfFlag
    /\ gtfPc' = "name"
    /\ UNCHANGED <<fsys, fsys0, dirThere, gtfFlag, gtfSeen, gtfRes, gtfWhy>>
    /\ UNCHANGED notFs

\* find_trace_files: fs::read_dir(path) is Ok
GtfReadDir ==
    /\ gtfPc = "idle" /\ gtfFlag
    /\ dirThere
    /\ gtfPc' = "list"
    /\ UNCHANGED <<fsys, fsys0, dirThere, gtfFlag, gtfSeen, gtfRes, gtfWhy>>
    /\ UNCHANGED notFs

\* find_trace_files: fs::read_dir(path) is Err: "Failed to read trace directory"
GtfReadDirFail ==
    /\ gtfPc = "idle" /\ gtfFlag
    /\ GtfEnds("err", "read_dir")
    /\ UNCHANGED <<fsys, fsys0, dirThere, gtfFlag, gtfSeen>>
    /\ UNCHANGED notFs

\* .map(|entry| entry.unwrap()): the next entry is an Err
GtfEntryUnreadable ==
    /\ gtfPc = "list"
    /\ Unlisted # {}
    /\ GtfEnds("panic", "entry")
    /\ UNCHANGED <<fsys, fsys0, dirThere, gtfFlag, gtfSeen>>
    /\ UNCHANGED notFs

\* entry.file_type().unwrap(): the file type cannot be read
GtfFileTypeFails ==
    /\ gtfPc = "list"
    /\ Unlisted # {}
    /\ GtfEnds("panic", "file_type")
    /\ UNCHANGED <<fsys, fsys0, dirThere, gtfFlag, gtfSeen>>
    /\ UNCHANGED notFs

\* entry.file_name().to_str().unwrap(): a file whose name is not UTF-8
GtfNameNotUtf8 ==
    /\ gtfPc = "list"
    /\ \E e \in Unlisted : IsFile(e) /\ ~NameIsUtf8(e)
    /\ GtfEnds("panic", "to_str")
    /\ UNCHANGED <<fsys, fsys0, dirThere, gtfFlag, gtfSeen>>
    /\ UNCHANGED notFs

\* filter_map gives None: not a file, or a name that does not end in ".trace"
GtfSkipEntry ==
    /\ gtfPc = "list"
    /\ \E e \in Unlisted :
          /\ ~IsFile(e) \/ (NameIsUtf8(e) /\ ~EndsWithTraceExt(e))
          /\ gtfSeen' = gtfSeen \cup {e}
    /\ UNCHANGED <<fsys, fsys0, dirThere, gtfFlag, gtfPc, gtfRes, gtfWhy>>
    /\ UNCHANGED notFs

\* fs::remove_file(trace) is Ok
GtfRemove ==
    /\ gtfPc = "list"
    /\ \E e \in Unlisted :
          /\ IsFile(e) /\ NameIsUtf8(e) /\ EndsWithTraceExt(e)
          /\ fsys' = [fsys EXCEPT ![e] = "absent"]
          /\ gtfSeen' = gtfSeen \cup {e}
    /\ UNCHANGED <<fsys0, dirThere, gtfFlag, gtfPc, gtfRes, gtfWhy>>
    /\ UNCHANGED notFs

\* fs::remove_file(trace) is Err: "Failed to remove previous trace file"
GtfRemoveFail ==
    /\ gtfPc = "list"
    /\ \E e \in Unlisted : IsFile(e) /\ NameIsUtf8(e) /\ EndsWithTraceExt(e)
    /\ GtfEnds("err", "remove_file")
    /\ UNCHANGED <<fsys, fsys0, dirThere, gtfFlag, gtfSeen>>
    /\ UNCHANGED notFs

\* the iterator of find_trace_files is exhausted
GtfListDone ==
    /\ gtfPc = "list"
    /\ Unlisted = {}
    /\ gtfPc' = "name"
    /\ UNCHANGED <<fsys, fsys0, dirThere, gtfFlag, gtfSeen, gtfRes, gtfWhy>>
    /\ UNCHANGED notFs

\* find_git_repo(..)?, repo.describe(..)? or .format(..)? is Err
GtfDescribeFail ==
    /\ gtfPc = "name"
    /\ GtfEnds("err", "git")
    /\ UNCHANGED <<fsys, fsys0, dirThere, gtfFlag, gtfSeen>>
    /\ UNCHANGED notFs

\* the file name is built
GtfNamed ==
    /\ gtfPc = "name"
    /\ gtfPc' = "mkdir"
    /\ UNCHANGED <<fsys, fsys0, dirThere, gtfFlag, gtfSeen, gtfRes, gtfWhy>>
    /\ UNCHANGED notFs

\* fs::create_dir_all(trace_dir) is Ok
GtfMkdir ==
    /\ gtfPc = "mkdir"
    /\ dirThere' = TRUE
    /\ gtfPc' = "open"
    /\ UNCHANGED <<fsys, fsys0, gtfFlag, gtfSeen, gtfRes, gtfWhy>>
    /\ UNCHANGED notFs

\* fs::create_dir_all(trace_dir)? is Err
GtfMkdirFail ==
    /\ gtfPc = "mkdir"
    /\ GtfEnds("err", "create_dir_all")
    /\ UNCHANGED <<fsys, fsys0, dirThere, gtfFlag, gtfSeen>>
    /\ UNCHANGED notFs

\* create_new(true).open(&file)? with the file already there: Err
GtfOpenExists ==
    /\ gtfPc = "open"
    /\ fsys[NewName] # "absent"
    /\ GtfEnds("err", "exists")
    /\ UNCHANGED <<fsys, fsys0, dirThere, gtfFlag, gtfSeen>>
    /\ UNCHANGED notFs

\* create_new(true).open(&file)? is Err for another reason
GtfOpenFail ==
    /\ gtfPc = "open"
    /\ fsys[NewName] = "absent"
    /\ GtfEnds("err", "open")
    /\ UNCHANGED <<fsys, fsys0, dirThere, gtfFlag, gtfSeen>>
    /\ UNCHANGED notFs

\* create_new(true).open(&file) creates the file: Ok(Self { file })
GtfCreated ==
    /\ gtfPc = "open"
    /\ fsys[NewName] = "absent"
    /\ fsys' = [fsys EXCEPT ![NewName] = "new"]
    /\ GtfEnds("ok", "created")
    /\ UNCHANGED <<fsys0, dirThere, gtfFlag, gtfSeen>>
    /\ UNCHANGED notFs

FindTraceFiles ==
    \/ GtfReadDir
    \/ GtfReadDirFail
    \/ GtfEntryUnreadable
    \/ GtfFileTypeFails
    \/ GtfNameNotUtf8
    \/ GtfSkipEntry
    \/ GtfListDone

GenerateTraceFile ==
    \/ GtfSkipRemoval
    \/ FindTraceFiles
    \/ GtfRemove
    \/ GtfRemoveFail
    \/ GtfDescribeFail
    \/ GtfNamed
    \/ GtfMkdir
    \/ GtfMkdirFail
    \/ GtfOpenExists
    \/ GtfOpenFail
    \/ GtfCreated

(***************************************************************************)
(* SpecFs: one generate_trace_file call on a trace directory holding any    *)
(* of the entries, with either setting of remove_prev_traces                *)
(***************************************************************************)
InitFs ==
    /\ dirThere \in BOOLEAN
    /\ fsys \in [Entries -> {"absent", "old"}]
    /\ ~dirThere => fsys = [e \in Entries |-> "absent"]
    /\ fsys0 = fsys
    /\ gtfFlag \in BOOLEAN
    /\ gtfPc = "idle"
    /\ gtfSeen = {}
    /\ gtfRes = "none"
    /\ gtfWhy = "none"
    /\ PipeIdle
    /\ BufIdle
    /\ RstIdle
    /\ app = ScenarioApp
    /\ InitSwIdle
    /\ hwTasks = EmptyMap
    /\ device = <<>>
    /\ hwPc = "off"
    /\ InitHwLocals

NextFs == GenerateTraceFile

SpecFs == InitFs /\ [][NextFs]_vars

(***************************************************************************)
(* Declaration order and enclosing paths, read off the item tree itself     *)
(***************************************************************************)
\* The item whose body or content declares n (0 for the root item).
Parent(n) == IF n = 1 THEN 0 ELSE CHOOSE p \in Nodes : n \in Range(app[p].items)

RECURSIVE Enclosing(_)
\* n and every item enclosing it
Enclosing(n) == IF n = 0 THEN {} ELSE {n} \cup Enclosing(Parent(n))

RECURSIVE PathOf(_)
\* the names of the items enclosing n, outermost first, then n's own name
PathOf(n) == IF n = 0 THEN <<>> ELSE Append(PathOf(Parent(n)), Ident(n))

TracedFns == {n \in Nodes : app[n].kind = "Fn" /\ app[n].traced}

\* f is declared before g in the source text: f encloses g, or they sit in
\* different items of one body of which f's comes first.
DeclaredBefore(f, g) ==
    /\ f # g
    /\ \/ f \in Enclosing(g)
       \/ /\ g \notin Enclosing(f)
          /\ \E a \in Nodes : \E i, j \in DOMAIN app[a].items :
                /\ i < j
                /\ app[a].items[i] \in Enclosing(f)
                /\ app[a].items[j] \in Enclosing(g)

\* the task ids whose recorded path ends in f's name
IdsOf(f) == {k \in DOMAIN assocs : Last(assocs[k]) = Ident(f)}

IdOf(f) == CHOOSE k \in IdsOf(f) : TRUE

C2_PathsAndBalancedStack ==
    /\ \A k \in DOMAIN assocs : \E f \in TracedFns : assocs[k] = PathOf(f)
    /\ swPc = "run" /\ Len(stack) > 0 => ctx = PathOf(Top.item)
    /\ swResult = "ok" =>
          /\ ctx = <<>>
          /\ \A f \in TracedFns : \E k \in DOMAIN assocs : assocs[k] = PathOf(f)

\* a path of three names is recorded, and the next id gets a path of two
C2_Witness ==
    /\ swResult = "ok"
    /\ \E k \in DOMAIN assocs :
          /\ k + 1 \in DOMAIN assocs
          /\ Len(assocs[k]) = 3
          /\ assocs[k + 1] = <<"app", "bar">>

(***************************************************************************)
(* Claims about the sinks and the pipeline (checked under SpecPipe)         *)
(***************************************************************************)
RECURSIVE Concat(_)
\* the concatenation of a sequence of byte strings
Concat(parts) == IF parts = <<>> THEN <<>> ELSE Head(parts) \o Concat(Tail(parts))

IsPrefix(p, s) == Len(p) <= Len(s) /\ SubSeq(s, 1, Len(p)) = p

AllButLast(s) == SubSeq(s, 1, Len(s) - 1)

\* the batches FileSink::drain has been called with and returned Ok for
FileDrained ==
    IF pipePc \in {"yielded", "drain_file"} \/ (pipePc = "ended" /\ fileRes = "err" /\ cur # <<>>)
    THEN AllButLast(yielded)
    ELSE yielded

\* the batches FrontendSink::drain has been called with and returned Ok for
FrontDrained ==
    IF \/ pipePc \in {"yielded", "drain_file", "drain_front"}
       \/ (pipePc = "ended" /\ cur # <<>> /\ (fileRes = "err" \/ frontRes = "err"))
    THEN AllButLast(yielded)
    ELSE yielded

\* the header of this session
Header == MetadataNew(opts.maps, opts.now, opts.freq)

\* the bytes of the header followed by those of the given batches
FileImage(batches) ==
    SerMetadata(Header) \o Concat([i \in DOMAIN batches |-> SerBatch(batches[i])])

RECURSIVE Resolvable(_)
\* the batches among the given ones that the Metadata resolves, in order
Resolvable(batches) ==
    IF batches = <<>> THEN <<>>
    ELSE IF Resolves(Header, Head(batches))
         THEN <<Head(batches)>> \o Resolvable(Tail(batches))
         ELSE Resolvable(Tail(batches))

\* the bytes of the resolved events of the given batches
ChannelImage(batches) ==
    LET rs == Resolvable(batches)
    IN  Concat([i \in DOMAIN rs |-> SerEvents(ResolveEventChunk(Header, rs[i]))])

\* C6: after a successful init() and K successful drain() calls the file
\* holds the serialized header followed by the serialized batches in drain
\* order and nothing else, and splitting these bytes into self-delimited JSON
\* values and parsing them gives back the header and the K batches in order.
C6_FileRoundTrip ==
    (fileRes = "ok" /\ metadata # <<>>) =>
        /\ metadata[1] = Header
        /\ file = FileImage(FileDrained)
        /\ LET values == SplitValues(file, <<>>, 0)
           IN  /\ Len(values) = 1 + Len(FileDrained)
               /\ ParseMetadata(values[1]) = Header
               /\ \A i \in DOMAIN FileDrained :
                     ParseBatch(values[i + 1]) = FileDrained[i]

\* a header and two different batches, one of two packets, are in the file
C6_Witness ==
    /\ fileRes = "ok"
    /\ pipePc = "ready"
    /\ opts.src = "probe"
    /\ opts.freq = 16
    /\ yielded = << <<1, 12>>, <<>> >>
    /\ Len(SplitValues(file, <<>>, 0)) = 3

\* C7: FrontendSink::drain() of a batch the Metadata cannot resolve returns
\* Ok and writes nothing; drain() returns Err only for a batch that resolves
\* and whose serialization or channel write failed; and as long as no drain()
\* has failed the channel holds exactly the resolved events of the resolvable
\* batches drained so far, so batches after an unresolvable one are forwarded.
C7_UnresolvedBatchIsSkipped ==
    /\ (cur # <<>> /\ metadata # <<>> /\ ~Resolves(metadata[1], cur[1])) =>
          /\ frontRes # "err"
          /\ pipePc = "ready" => frontWhy = "unresolved"
    /\ frontRes = "err" =>
          /\ frontWhy \in {"ser", "write"}
          /\ Resolves(metadata[1], cur[1])
    /\ frontRes # "err" => socket = ChannelImage(FrontDrained)
    /\ metadata # <<>> => metadata[1] = Header

\* an unresolvable batch was dropped and the batch after it was forwarded
C7_Witness ==
    /\ pipePc = "ready"
    /\ frontRes = "ok"
    /\ Len(yielded) = 2
    /\ ~Resolves(metadata[1], yielded[1])
    /\ Resolves(metadata[1], yielded[2])
    /\ socket = SerEvents(ResolveEventChunk(metadata[1], yielded[2]))

\* C8: the bytes of the file are always a prefix of the header followed by
\* the batches in the order the source yielded them, and the bytes of the
\* channel a prefix of the resolved events in that order; whenever the loop
\* is about to ask for the next batch, every yielded batch has been written
\* exactly once, in order.
C8_SinksSeeYieldOrder ==
    /\ metadata # <<>> =>
          /\ IsPrefix(file, FileImage(yielded))
          /\ IsPrefix(socket, ChannelImage(yielded))
    /\ pipePc \in {"ready", "read", "pull"} =>
          /\ file = FileImage(yielded)
          /\ socket = ChannelImage(yielded)
    /\ Len(yielded) - Len(FileDrained) \in {0, 1}
    /\ Len(yielded) - Len(FrontDrained) \in {0, 1}

\* two different batches read from the serial device reached both sinks
C8_Witness ==
    /\ pipePc = "ready"
    /\ opts.src = "tty"
    /\ opts.maps = <<1, 12>>
    /\ yielded = << <<1>>, <<12>> >>
    /\ file = FileImage(yielded)
    /\ socket = ChannelImage(yielded)
    /\ socket # <<>>

(***************************************************************************)
(* Claims about the iteration step of ProbeSource (checked under SpecPipe)  *)
(***************************************************************************)
\* the step is under way: it is about to read, or about to pull
InStep == pipePc \in {"read", "pull"}

\* C12: a ProbeSource step leaves its read -> push -> pull loop only by
\* returning the batch the decoder completed or by returning the error of a
\* failed read, at once and without another read; a pull that gives no batch
\* is followed by the next read, so the step does not return while reads
\* succeed and no batch completes; it never reports the end of the stream.
C12_ProbeStepEndsOnBatchOrError ==
    [][opts.src = "probe" =>
          /\ srcRes' # "eof"
          /\ (pipePc = "pull" /\ ~HasBatch(decoder)) =>
                (pipePc' = "read" /\ srcRes' = srcRes /\ yielded' = yielded)
          /\ (pipePc = "pull" /\ HasBatch(decoder)) =>
                (pipePc' = "yielded" /\ srcRes' = "some")
          /\ (pipePc = "read" /\ pipePc' # "pull") =>
                /\ pipePc' = "ended"
                /\ srcRes' = "err"
                /\ nread' = nread
                /\ decoder' = decoder
          /\ (InStep /\ ~InStep') =>
                \/ srcRes' = "some" /\ cur' # <<>> /\ yielded' = Append(yielded, cur'[1])
                \/ srcRes' = "err" /\ pipePc = "read"
    ]_vars

\* a step returned a batch; a later step read a byte that completed no
\* batch, read again and returned the error of that read
C12_Witness ==
    /\ opts.src = "probe"
    /\ pipePc = "ended"
    /\ srcRes = "err"
    /\ yielded = << <<1>> >>
    /\ decoder = <<12>>
    /\ frontRes = "ok"

\* C16: a ProbeSource step pulls from the decoder only right after a
\* successful read has been pushed, and pulls once per read: a yield takes one
\* batch, the bytes up to the first timestamp, and leaves what follows it in
\* the decoder, further complete batches included; these are yielded by later
\* steps, each after a read of its own, and never at a step's start.
C16_OnePullPerProbeRead ==
    [][opts.src = "probe" =>
          /\ pipePc' = "pull" =>
                /\ pipePc = "read"
                /\ IsPrefix(decoder, decoder')
                /\ Len(decoder') - Len(decoder) = nread' - nread
                /\ yielded' = yielded
          /\ pipePc = "pull" => pipePc' \in {"read", "yielded"}
          /\ yielded' # yielded =>
                /\ pipePc = "pull"
                /\ Len(yielded') = Len(yielded) + 1
                /\ SubSeq(yielded', 1, Len(yielded)) = yielded
                /\ \A i \in DOMAIN Last(yielded') : ~IsTimestamp(Last(yielded')[i])
                /\ \E t \in WireBytes :
                      /\ IsTimestamp(t)
                      /\ decoder = Last(yielded') \o <<t>> \o decoder'
          /\ (pipePc = "ready" /\ HasBatch(decoder)) =>
                (pipePc' = "read" /\ yielded' = yielded /\ decoder' = decoder)
    ]_vars

\* one push completed two batches: the first was yielded and drained, and
\* the second waits in the decoder for the read of the next step
C16_Witness ==
    /\ opts.src = "probe"
    /\ pipePc = "ready"
    /\ nread = 3
    /\ yielded = << <<1>> >>
    /\ decoder = <<0>>
    /\ HasBatch(decoder)
    /\ frontRes = "ok"

(***************************************************************************)
(* Claims about the iteration step of TTYSource (checked under SpecPipe)    *)
(***************************************************************************)
\* C13: a TTYSource step takes the bytes of the device one at a time, pushes
\* each to the decoder and pulls after each push, so no complete batch is ever
\* left in the decoder; it returns the batch as soon as a pushed byte
\* completes one, returns an error when a byte read fails, without pushing
\* anything, and reports the end of the sequence only when the device has no
\* further byte while no batch is complete.
C13_TTYStepReadsByteByByte ==
    [][opts.src = "tty" =>
          /\ pipePc = "read" => ~HasBatch(decoder)
          /\ nread' - nread \in {0, 1}
          /\ nread' = nread + 1 =>
                /\ pipePc = "read" /\ pipePc' = "pull"
                /\ Len(decoder') = Len(decoder) + 1
                /\ SubSeq(decoder', 1, Len(decoder)) = decoder
          /\ (pipePc = "pull" /\ ~HasBatch(decoder)) =>
                (pipePc' = "read" /\ yielded' = yielded /\ decoder' = decoder)
          /\ (pipePc = "pull" /\ HasBatch(decoder)) =>
                /\ pipePc' = "yielded" /\ srcRes' = "some"
                /\ cur' = <<AllButLast(decoder)>>
                /\ yielded' = Append(yielded, AllButLast(decoder))
                /\ decoder' = <<>>
          /\ (pipePc = "read" /\ pipePc' # "pull") =>
                /\ pipePc' = "ended"
                /\ srcRes' \in {"err", "eof"}
                /\ nread' = nread /\ decoder' = decoder /\ yielded' = yielded
          /\ (InStep /\ srcRes' \in {"err", "eof"}) => pipePc = "read"
    ]_vars

\* the device ended after a batch and one more byte: the step reported the end
C13_Witness ==
    /\ opts.src = "tty"
    /\ pipePc = "ended"
    /\ srcRes = "eof"
    /\ yielded = << <<1>> >>
    /\ decoder = <<12>>
    /\ nread = 3

(***************************************************************************)
(* Claims about FileSink::init (checked under SpecPipe)                     *)
(***************************************************************************)
\* C15: init() invokes the reset closure exactly once, as its first step and
\* so before any byte of the header is written; when the closure fails,
\* init() returns an error, the file stays empty and no Metadata is returned;
\* after a successful init() the file begins with the serialized header.
C15_ResetOnceBeforeHeader ==
    /\ [](/\ resetCalls = (IF pipePc = "init" THEN 0 ELSE 1)
          /\ file # <<>> => resetCalls = 1
          /\ pipePc = "init" => (file = <<>> /\ metadata = <<>>)
          /\ metadata # <<>> =>
                /\ metadata = <<Header>>
                /\ IsPrefix(SerMetadata(Header), file)
          /\ (fileRes = "ok" /\ pipePc = "ready" /\ yielded = <<>>) =>
                (metadata # <<>> /\ file = SerMetadata(Header)))
    /\ [][pipePc = "init" =>
            /\ resetCalls' = resetCalls + 1
            /\ file' = <<>>
            /\ metadata' = <<>>
            /\ \/ pipePc' = "init_write" /\ fileRes' = fileRes
               \/ pipePc' = "ended" /\ fileRes' = "err"
       ]_vars

\* the closure was invoked once and init() returned the Metadata, with the
\* header as the only contents of the file
C15_Witness ==
    /\ pipePc = "ready"
    /\ fileRes = "ok"
    /\ resetCalls = 1
    /\ yielded = <<>>
    /\ metadata = <<Header>>
    /\ file = SerMetadata(Header)
    /\ opts.maps = <<1, 12>>

(***************************************************************************)
(* Claims about avail_buffer (checked under SpecBuf)                        *)
(***************************************************************************)
IsEstimate(status) == status.kind \in {"Avail", "AvailWarn"}

\* C9: avail_buffer() returns Unknown when the FIONREAD query or the page
\* size query is unavailable; otherwise it reports remaining = page_size -
\* queued bytes, as a warning exactly when remaining < page_size / 4 (in
\* whole numbers: 4 * (remaining + 1) <= page_size) and as normal otherwise.
\* With a page of 4096, 100 queued bytes give a normal status and 900
\* remaining bytes give a warning.
C9_WarnBelowQuarterPage ==
    lastStatus # NoStatus =>
        /\ (fion = <<>> \/ pageSize = <<>>) => lastStatus = Unknown
        /\ (fion # <<>> /\ pageSize # <<>>) =>
              LET page == pageSize[1]
                  rem  == page - fion[1]
              IN  /\ IsEstimate(lastStatus)
                  /\ lastStatus.n = rem
                  /\ lastStatus.kind = "AvailWarn" <=> 4 * (rem + 1) <= page
                  /\ lastStatus.kind = "AvailWarn" => lastStatus.page = page
        /\ (pageSize = <<4096>> /\ fion = <<100>>) => lastStatus = Avail(3996)
        /\ (pageSize = <<4096>> /\ fion = <<3196>>) =>
              lastStatus = AvailWarn(900, 4096)

\* 900 bytes of headroom in a page of 4096 were reported as a warning
C9_Witness == lastStatus = AvailWarn(900, 4096) /\ fion = <<3196>>

\* C10: when two consecutive avail_buffer() calls both return an estimate
\* and next() has not read from the device between them, the second estimate
\* is less than or equal to the first.
C10_EstimateDoesNotGrowWithoutRead ==
    (IsEstimate(prevStatus) /\ IsEstimate(lastStatus) /\ ~readBetween) =>
        lastStatus.n <= prevStatus.n

\* bytes arrived between two calls and the second estimate is smaller
C10_Witness ==
    /\ IsEstimate(prevStatus)
    /\ IsEstimate(lastStatus)
    /\ ~readBetween
    /\ arrivals > 0
    /\ lastStatus.n < prevStatus.n

(***************************************************************************)
(* Claims about reset_target (checked under SpecReset)                      *)
(***************************************************************************)
\* C11: on either source, a reset_target(reset_halt) call that got the core
\* issues exactly one operation on it, a reset-and-halt with a timeout of
\* 250 ms when reset_halt is true and a plain reset otherwise, and issues
\* none when it did not get the core; it returns Ok only if the core was
\* acquired and that one reset succeeded, and a ResetError if either failed.
C11_OneResetAndFailuresReported ==
    /\ Len(coreOps) <= 1
    /\ rstPc = "reset" => (coreHeld /\ coreOps = <<>>)
    /\ \A i \in DOMAIN rstLog :
          LET c == rstLog[i]
          IN  /\ c.res \in {"ok", "ResetError"}
              /\ c.held => Len(c.ops) = 1
              /\ ~c.held => c.ops = <<>>
              /\ \A k \in DOMAIN c.ops :
                    /\ c.halt => c.ops[k].call =
                                    [op |-> "reset_and_halt", timeout |-> 250]
                    /\ ~c.halt => c.ops[k].call.op = "reset"
              /\ c.res = "ok" <=> (c.held /\ c.ops # <<>> /\ c.ops[1].ok)

\* a serial source was reset and halted, then failed to get the core, then
\* failed a plain reset
C11_Witness ==
    /\ rstSrc = "tty"
    /\ rstPc = "idle"
    /\ Len(rstLog) = 3
    /\ rstLog[1].halt /\ rstLog[1].res = "ok"
    /\ ~rstLog[2].held /\ rstLog[2].res = "ResetError"
    /\ ~rstLog[3].halt /\ rstLog[3].held /\ rstLog[3].res = "ResetError"

(***************************************************************************)
(* Claims about generate_trace_file (checked under SpecFs)                  *)
(***************************************************************************)
\* no entry that was there when the call began has been given new contents,
\* and the only entry created is the newly named file, which was not there
\* when it was opened
NothingOverwritten ==
    \A e \in Entries :
        fsys[e] = "new" =>
            /\ e = NewName
            /\ gtfRes = "ok"
            /\ fsys0[e] = "absent" \/ (gtfFlag /\ e \in gtfSeen)

\* entries are removed only with remove_prev_traces set, and then only
\* files named "*.trace"
RemovalOnlyOnFlag ==
    \A e \in Entries :
        (fsys0[e] = "old" /\ fsys[e] # "old") =>
            (gtfFlag /\ IsFile(e) /\ NameIsUtf8(e) /\ EndsWithTraceExt(e))

\* C14: generate_trace_file() never overwrites or truncates an existing file
\* and ends either having created a file that did not exist or returning an
\* error; it deletes trace files only when remove_prev_traces is set and
\* leaves every existing file untouched otherwise.
C14_NewFileOrErrorAndRemovalOnlyOnFlag ==
    /\ NothingOverwritten
    /\ RemovalOnlyOnFlag
    /\ gtfPc = "done" => gtfRes \in {"ok", "err"}
    /\ gtfRes = "ok" => fsys[NewName] = "new"
    /\ gtfRes = "err" => \A e \in Entries : fsys[e] # "new"

\* with remove_prev_traces set, an earlier trace was removed and then a file
\* with a name that is not UTF-8 made the call panic
C14_Witness ==
    /\ gtfPc = "done"
    /\ gtfRes = "panic"
    /\ gtfWhy = "to_str"
    /\ gtfFlag
    /\ fsys0["old.trace"] = "old"
    /\ fsys["old.trace"] = "absent"
    /\ fsys["raw.trace"] = "old"

(***************************************************************************)
(* Claims about hardware_tasks and resolve (checked under SpecHw)           *)
(***************************************************************************)
\* hardware_tasks() has returned Ok((int_assocs, ext_assocs))
HwReturnedOk == hwPc = "sw" \/ errKind = "sw_parse" \/ result = "ok"

ExternalBound == \E b \in Binds : b \notin InternalExceptions

\* C3: once hardware_tasks has returned its maps, every hardware task bound
\* to one of the ten internal exception names has that name mapped to
\* [app, task] in InternalHwAssocs; no internal name is ever handed to
\* resolve_int_nrs; and when no task is bound to an external name,
\* resolve_int_nrs is never invoked and ExternalHwAssocs is empty.
C3_InternalBindsNeedNoLookup ==
    /\ HwReturnedOk =>
          \A t \in DOMAIN hwTasks :
             hwTasks[t] \in InternalExceptions =>
                /\ hwTasks[t] \in DOMAIN exceptions
                /\ exceptions[hwTasks[t]] = <<"app", TaskIdent(t)>>
    /\ result = "ok" => maps[1].exceptions = exceptions
    /\ \A i \in DOMAIN adhocCalls :
          adhocCalls[i].binds \cap InternalExceptions = {}
    /\ ~ExternalBound =>
          /\ adhocCalls = <<>>
          /\ adhoc = "none"
          /\ interrupts = EmptyMap

\* two tasks bound to internal names only: resolve() ends Ok without having
\* called resolve_int_nrs
C3_Witness ==
    /\ result = "ok"
    /\ Binds = {"SysTick", "PendSV"}
    /\ DOMAIN maps[1].exceptions = {"SysTick", "PendSV"}
    /\ adhocCalls = <<>>
    /\ maps[1].interrupts = EmptyMap

\* C4 (as claimed): ExternalHwAssocs is populated only after resolve_int_nrs
\* succeeded, and when the auxiliary build, the loading of the built module
\* or the lookup of a generated symbol fails, resolve() returns an error
\* value and hands out no TaskResolveMaps.
C4_AdhocFailureIsAnErrorValue ==
    /\ interrupts # EmptyMap => adhoc = "ok"
    /\ adhoc \in {"io", "build", "load", "symbol"} =>
          /\ result = "err"
          /\ maps = <<>>

\* C5 (as claimed): a missing device argument, or one with neither one nor
\* two segments, makes hardware_tasks fail whatever the tasks are bound to.
C5_BadDeviceAlwaysFails ==
    (device = <<>> \/ Len(device) \notin {1, 2}) => ~HwReturnedOk

\* C5 (amended): hardware_tasks fails when the device argument is missing,
\* and when it has neither one nor two segments while some task is bound to
\* an external name; resolve() then returns an error and no maps.  With only
\* internal names bound the segment count is never a reason to fail.
C5_BadDeviceFailsWhenNeeded ==
    /\ (device = <<>> \/ (Len(device) \notin {1, 2} /\ ExternalBound)) =>
          /\ ~HwReturnedOk
          /\ hwPc = "done" => result = "err" /\ maps = <<>>
    /\ errKind = "device_unparseable" => ExternalBound

\* a three-segment device argument with an external name bound is refused
C5_Witness ==
    /\ hwPc = "done"
    /\ errKind = "device_unparseable"
    /\ Len(device) = 3
    /\ ExternalBound

====
